---- MODULE Spec2Model ----
(***************************************************************************)
(* Model of the Datadog serverless plugin's orchestration core             *)
(* (src/src/index.ts): the hook table, the two phase functions             *)
(* beforePackageFunction / afterPackageFunction and their helpers.         *)
(* The collaborators imported from ./env, ./layer, ./tracing, ./wrapper,   *)
(* ./util and ./forwarder are modelled by the contracts the specification  *)
(* gives for them.                                                         *)
(***************************************************************************)
EXTENDS Integers, Sequences, FiniteSets, TLC

\* ------------------------------------------------------------------ bounds
\* Number of functions declared by the service manifest.
NumFuncs == 2
\* Number of runs of each phase the host may drive over one service model.
MaxRuns == 2

Funcs == 1..NumFuncs

\* ---------------------------------------------------------------- values
\* JavaScript `undefined` (an absent runtime, an absent tag value).
Undefined == "undefined"

\* serverless.service.getServiceName() and getProvider("aws").getStage()
ServiceName == "my-service"
Stage == "dev"

\* enum TagKeys
TagKeys == [Service |-> "service", Env |-> "env"]

\* Tag keys a tags mapping is observed at: the two the plugin writes and the
\* key "environment", which it never writes.
TagKeySet == {"service", "env", "environment"}

\* Values a user may have given a tag: the empty string or a non-empty one.
UserTagValues == {"", "custom"}

\* Runtime strings a manifest may declare.
RuntimeStrings == {"nodejs18.x", "python3.8", "go1.x"}

\* The handler path the user declared for function f.
UserHandler(f) == "handler.f" \o ToString(f)

\* module-type hints of the resolved configuration
NodeModuleTypes == {"es6", "node", "typescript", Undefined}

\* TracingMode
TracingModes == {"NONE", "DD_TRACE", "XRAY", "HYBRID"}

VARIABLES
    config,        \* the resolved configuration getConfig(service) returns
    webpack,       \* hasWebpackPlugin(service)
    providerRuntime, \* service.provider.runtime
    funcs,         \* the function definitions of the service, mutated in place
    webpackExcluded, \* forceExcludeDepsFromWebpack has been applied
    tracing,       \* tracing mode last passed to enableTracing ("unset" before)
    command,       \* the command the host is executing
    events,        \* hooked lifecycle events of that command still to fire
    beforeDone,    \* beforePackageFunction completed in this command execution
    lastPhase,     \* the phase function that ran last, and how it ended
    logged,        \* serverless.cli.log lines of the last phase run, in order
    passes,        \* the passes the last phase run performed, in order
    handlers,      \* FunctionInfo list getHandlers returned in the last run
    defaultNode,   \* defaultNodeRuntime getHandlers passed on in the last run
    remoteFailed,  \* functions whose subscription failed remotely in the last run
    pending,       \* afterPackageFunction is suspended at its await of the forwarder call
    beforeRuns,    \* completed runs of beforePackageFunction
    afterRuns      \* completed runs of afterPackageFunction

vars == <<config, webpack, providerRuntime, funcs, webpackExcluded, tracing,
          command, events, beforeDone, lastPhase, logged, passes, handlers,
          defaultNode, remoteFailed, pending, beforeRuns, afterRuns>>

\* ------------------------------------------------------- lifecycle dispatch
\* The hook table with "after:package:initialize" bound to the after-package
\* phase function, as a slip in the table would bind it.
hooksInitializeAfter ==
    [e \in {"after:datadog:clean:init", "after:datadog:generate:init",
            "after:deploy:function:packageFunction", "after:invoke:local:invoke",
            "after:package:createDeploymentArtifacts", "after:package:initialize",
            "before:deploy:function:packageFunction", "before:invoke:local:invoke",
            "before:offline:start:init", "before:step-functions-offline:start"} |->
        IF e \in {"after:datadog:clean:init", "after:deploy:function:packageFunction",
                  "after:invoke:local:invoke", "after:package:createDeploymentArtifacts",
                  "after:package:initialize"}
        THEN "afterPackageFunction" ELSE "beforePackageFunction"]

\* public hooks = {...}: event name -> phase function bound to it
hooks ==
    [e \in {"after:datadog:clean:init", "after:datadog:generate:init",
            "after:deploy:function:packageFunction", "after:invoke:local:invoke",
            "after:package:createDeploymentArtifacts", "after:package:initialize",
            "before:deploy:function:packageFunction", "before:invoke:local:invoke",
            "before:offline:start:init", "before:step-functions-offline:start"} |->
        CASE e = "after:datadog:clean:init" -> "afterPackageFunction"
          [] e = "after:datadog:generate:init" -> "beforePackageFunction"
          [] e = "after:deploy:function:packageFunction" -> "afterPackageFunction"
          [] e = "after:invoke:local:invoke" -> "afterPackageFunction"
          [] e = "after:package:createDeploymentArtifacts" -> "afterPackageFunction"
          [] e = "after:package:initialize" -> "beforePackageFunction"
          [] e = "before:deploy:function:packageFunction" -> "beforePackageFunction"
          [] e = "before:invoke:local:invoke" -> "beforePackageFunction"
          [] e = "before:offline:start:init" -> "beforePackageFunction"
          [] e = "before:step-functions-offline:start" -> "beforePackageFunction"]

\* Commands the host can drive through the hooks.
Commands == {"package", "deploy", "deploy function", "invoke local",
             "offline start", "step-functions-offline start",
             "datadog generate", "datadog clean"}

\* The hooked events a command fires, in the host's lifecycle order
\* (package:initialize precedes package:createDeploymentArtifacts; a before:
\* hook of an event precedes its after: hook; the datadog sub-commands have
\* the single lifecycle event "init").
CommandEvents(c) ==
    CASE c \in {"package", "deploy"} ->
            <<"after:package:initialize", "after:package:createDeploymentArtifacts">>
      [] c = "deploy function" ->
            <<"before:deploy:function:packageFunction",
              "after:deploy:function:packageFunction">>
      [] c = "invoke local" ->
            <<"before:invoke:local:invoke", "after:invoke:local:invoke">>
      [] c = "offline start" -> <<"before:offline:start:init">>
      [] c = "step-functions-offline start" ->
            <<"before:step-functions-offline:start">>
      [] c = "datadog generate" -> <<"after:datadog:generate:init">>
      [] c = "datadog clean" -> <<"after:datadog:clean:init">>

\* Number of events of command c bound to phase function p.
PhaseCount(c, p) ==
    Cardinality({i \in DOMAIN CommandEvents(c) : hooks[CommandEvents(c)[i]] = p})

\* -------------------------------------------------------------- log lines
Line(msg, name, runtime) == [msg |-> msg, name |-> name, runtime |-> runtime]
NoName == 0

\* ------------------------------------------------------- runtime classifier
\* layer.ts runtimeLookup: the RuntimeType of a runtime string.
runtimeLookup(runtime) ==
    CASE runtime = "nodejs18.x" -> "NODE"
      [] runtime = "python3.8" -> "PYTHON"
      [] OTHER -> "UNSUPPORTED"

\* layer.ts findHandlers: one FunctionInfo per function; the declared runtime,
\* else the service default; a module-type default overrides generic NODE.
findHandlers(fs, defaultRuntime, defaultNodeRuntime) ==
    [f \in Funcs |->
        LET runtime == IF fs[f].runtime = Undefined THEN defaultRuntime
                       ELSE fs[f].runtime
            type == runtimeLookup(runtime)
        IN  [name |-> f,
             runtime |-> runtime,
             type |-> IF type = "NODE" /\ defaultNodeRuntime # Undefined
                      THEN defaultNodeRuntime ELSE type]]

\* The switch with the "es6" and "typescript" cases exchanged.
DefaultNodeRuntimeSwapped(nodeModuleType) ==
    CASE nodeModuleType = "es6" -> "NODE_TS"
      [] nodeModuleType = "typescript" -> "NODE_ES6"
      [] nodeModuleType = "node" -> "NODE"
      [] OTHER -> Undefined

\* getHandlers, the switch on nodeModuleType
DefaultNodeRuntime(nodeModuleType) ==
    CASE nodeModuleType = "es6" -> "NODE_ES6"
      [] nodeModuleType = "typescript" -> "NODE_TS"
      [] nodeModuleType = "node" -> "NODE"
      [] OTHER -> Undefined

getHandlers(fs, nodeModuleType) ==
    findHandlers(fs, providerRuntime, DefaultNodeRuntime(nodeModuleType))

\* ------------------------------------------------------------ phase passes
\* env.ts getConfig: the resolved configuration of the service.
getConfig == config

\* env.ts setEnvConfiguration: the configuration is injected into every
\* function's own environment.
setEnvConfiguration(fs) ==
    [f \in Funcs |-> [fs[f] EXCEPT !.ddEnv = TRUE]]

\* debugLogHandlers: one line per UNSUPPORTED handler, in function order.
debugLogLine(handler) ==
    IF handler.runtime = Undefined
    THEN Line("Unable to determine runtime for function", handler.name, Undefined)
    ELSE Line("Unable to add Lambda Layers to function", handler.name, handler.runtime)

RECURSIVE debugLogFrom(_, _)
debugLogFrom(hs, f) ==
    IF f > NumFuncs THEN <<>>
    ELSE (IF hs[f].type = "UNSUPPORTED" THEN <<debugLogLine(hs[f])>> ELSE <<>>)
         \o debugLogFrom(hs, f + 1)

\* debugLogHandlers logging nothing for a function whose runtime is undefined.
debugLogHandlersDefinedOnly(hs) ==
    LET Defined(l) == l.runtime # Undefined
    IN  SelectSeq(debugLogFrom(hs, 1), Defined)

debugLogHandlers(hs) == debugLogFrom(hs, 1)

\* Layer resolution source: the layer reference of a runtime type.
LayerFor(type) == "layer:" \o type

\* layer.ts applyLayers: attach the runtime's layer to every supported
\* function; UNSUPPORTED functions are skipped.
applyLayers(fs, hs) ==
    [f \in Funcs |->
        IF hs[f].type = "UNSUPPORTED" THEN fs[f]
        ELSE [fs[f] EXCEPT !.layers = @ \cup {LayerFor(hs[f].type)}]]

\* The derivation testing the vendor flag first, so that HYBRID is never chosen.
TracingModeOfVendorFirst(cfg) ==
    IF cfg.enableDDTracing THEN "DD_TRACE"
    ELSE IF cfg.enableXrayTracing /\ cfg.enableDDTracing THEN "HYBRID"
    ELSE IF cfg.enableXrayTracing THEN "XRAY"
    ELSE "NONE"

\* beforePackageFunction, the derivation of tracingMode
TracingModeOf(cfg) ==
    IF cfg.enableXrayTracing /\ cfg.enableDDTracing THEN "HYBRID"
    ELSE IF cfg.enableDDTracing THEN "DD_TRACE"
    ELSE IF cfg.enableXrayTracing THEN "XRAY"
    ELSE "NONE"

\* Tracing injection adding the mode's settings to those already injected.
enableTracingAccumulate(current, tracingMode) ==
    IF current = "unset" THEN tracingMode ELSE current \o "," \o tracingMode

\* tracing.ts enableTracing: the service's tracing settings are set to those of
\* the mode, replacing whatever an earlier injection left.
enableTracing(current, tracingMode) == tracingMode

\* JavaScript `!value` on a tag value: undefined and "" are falsy.
Falsy(v) == v = Undefined \/ v = ""

NoTags == [k \in TagKeySet |-> Undefined]

\* The body without its environment-tag block: only the service tag is ensured.
addTagsServiceOnly(def) ==
    LET t0 == IF def.tags.present THEN def.tags.map ELSE NoTags
        t1 == IF Falsy(t0[TagKeys.Service])
              THEN [t0 EXCEPT ![TagKeys.Service] = ServiceName] ELSE t0
    IN  [def EXCEPT !.tags = [present |-> TRUE, map |-> t1]]

\* The body appending the defaults to whatever value a tag holds, instead of
\* setting a tag only when it holds none.
addTagsAppend(def) ==
    LET t0 == IF def.tags.present THEN def.tags.map ELSE NoTags
        Cur(k) == IF t0[k] = Undefined THEN "" ELSE t0[k]
    IN  [def EXCEPT !.tags =
            [present |-> TRUE,
             map |-> [t0 EXCEPT ![TagKeys.Service] = Cur(TagKeys.Service) \o ServiceName,
                                ![TagKeys.Env] = Cur(TagKeys.Env) \o Stage]]]

\* addServiceAndEnvTags, the body applied to one function definition
addTags(def) ==
    LET t0 == IF def.tags.present THEN def.tags.map ELSE NoTags
        t1 == IF Falsy(t0[TagKeys.Service])
              THEN [t0 EXCEPT ![TagKeys.Service] = ServiceName] ELSE t0
        t2 == IF Falsy(t1[TagKeys.Env])
              THEN [t1 EXCEPT ![TagKeys.Env] = Stage] ELSE t1
    IN  [def EXCEPT !.tags = [present |-> TRUE, map |-> t2]]

\* addServiceAndEnvTags: getAllFunctions().forEach(...)
addServiceAndEnvTags(fs) == [f \in Funcs |-> addTags(fs[f])]

\* wrapper.ts: the wrapper handler path of a runtime type; none for UNSUPPORTED.
\* With layers the wrapper is the layer's, without it is packaged with the code.
getDDHandler(type, addLayers) ==
    CASE type \in {"NODE", "NODE_ES6", "NODE_TS"} ->
            IF addLayers THEN "/opt/nodejs/datadog/handler.handler"
            ELSE "node_modules/datadog/handler.handler"
      [] type = "PYTHON" -> "datadog_lambda.handler.handler"
      [] OTHER -> Undefined

\* Redirection without the comparison against the wrapper path: an already
\* redirected handler is recorded as the handler to delegate to.
redirectHandlersAlways(fs, hs, addLayers) ==
    [f \in Funcs |->
        LET w == getDDHandler(hs[f].type, addLayers)
        IN  IF w = Undefined THEN fs[f]
            ELSE [fs[f] EXCEPT !.originalHandler = fs[f].handler, !.handler = w]]

\* wrapper.ts redirectHandlers: route every supported function through the
\* wrapper, keeping its handler for delegation; a handler that already is the
\* wrapper path is left alone.
redirectHandlers(fs, hs, addLayers) ==
    [f \in Funcs |->
        LET w == getDDHandler(hs[f].type, addLayers)
        IN  IF w = Undefined \/ fs[f].handler = w THEN fs[f]
            ELSE [fs[f] EXCEPT !.originalHandler = fs[f].handler, !.handler = w]]

\* forwarder.ts addCloudWatchForwarderSubscriptions: one remote operation per
\* function; `failed` are the functions whose operation fails remotely.  The
\* others end subscribed; one error per failed function is collected.
FuncSeq == [i \in Funcs |-> i]

addCloudWatchForwarderSubscriptions(fs, failed) ==
    LET Failed(f) == f \in failed
        fseq == SelectSeq(FuncSeq, Failed)
    IN  [funcs |-> [f \in Funcs |->
                      [fs[f] EXCEPT !.subscribed = @ \/ f \notin failed]],
         errors |-> [i \in DOMAIN fseq |->
                      Line("Could not subscribe forwarder", fseq[i], Undefined)]]

\* The loop leaving after its first iteration: only the first error is logged.
logErrorsFirstOnly(errors) == IF errors = <<>> THEN <<>> ELSE <<Head(errors)>>

\* afterPackageFunction, `for (const error of errors) cli.log(error)`
logErrors(errors) == errors

\* ------------------------------------------------------------------- Init
\* Defaults of the configuration resolver: layers on, vendor tracing on,
\* X-Ray tracing off, tags off, no forwarder, no module-type hint.
DefaultConfig ==
    [addLayers |-> TRUE, enableXrayTracing |-> FALSE, enableDDTracing |-> TRUE,
     enableTags |-> FALSE, forwarder |-> FALSE, nodeModuleType |-> Undefined]

\* A function definition as the manifest declares it.
FunctionDefinition(f, runtime, tags) ==
    [runtime |-> runtime, handler |-> UserHandler(f), originalHandler |-> Undefined,
     tags |-> tags, layers |-> {}, subscribed |-> FALSE, ddEnv |-> FALSE]

AbsentTags == [present |-> FALSE, map |-> NoTags]

\* The tags a user may declare: none, or a mapping giving "service" and "env"
\* each no value, the empty string or a non-empty string.
TagsChoices ==
    {AbsentTags} \cup
    {[present |-> TRUE,
      map |-> [NoTags EXCEPT ![TagKeys.Service] = s, ![TagKeys.Env] = e]] :
        s \in UserTagValues \cup {Undefined}, e \in UserTagValues \cup {Undefined}}

\* Manifests that exercise classification and layers: every runtime per
\* function, with and without a service default runtime, every module-type
\* hint, layers on and off, a bundling plugin configured.
InitRuntimes ==
    /\ \E al \in BOOLEAN, m \in NodeModuleTypes :
          config = [DefaultConfig EXCEPT !.addLayers = al, !.nodeModuleType = m]
    /\ webpack = TRUE
    /\ providerRuntime \in {Undefined, "nodejs18.x"}
    /\ \E rt \in [Funcs -> RuntimeStrings \cup {Undefined}] :
          funcs = [f \in Funcs |-> FunctionDefinition(f, rt[f], AbsentTags)]

\* Manifests that exercise tracing and the bundler hook: both tracing flags,
\* layers on and off, with and without a bundling plugin.
InitTracing ==
    /\ \E al \in BOOLEAN, x \in BOOLEAN, d \in BOOLEAN :
          config = [DefaultConfig EXCEPT !.addLayers = al, !.enableXrayTracing = x,
                                         !.enableDDTracing = d]
    /\ webpack \in BOOLEAN
    /\ providerRuntime = "nodejs18.x"
    /\ funcs = [f \in Funcs |-> FunctionDefinition(f, Undefined, AbsentTags)]

\* Manifests that exercise tag injection: every tags mapping per function,
\* tag injection on and off.
InitTags ==
    /\ \E t \in BOOLEAN : config = [DefaultConfig EXCEPT !.enableTags = t]
    /\ webpack = FALSE
    /\ providerRuntime = "nodejs18.x"
    /\ \E tg \in [Funcs -> TagsChoices] :
          funcs = [f \in Funcs |-> FunctionDefinition(f, Undefined, tg[f])]

\* Manifests that exercise the forwarder: a forwarder configured, tags and
\* layers on and off, supported and unsupported functions, with and without
\* a user's "service" tag.
InitForwarder ==
    /\ \E al \in BOOLEAN, t \in BOOLEAN :
          config = [DefaultConfig EXCEPT !.addLayers = al, !.enableTags = t,
                                         !.forwarder = TRUE]
    /\ webpack = FALSE
    /\ providerRuntime = "nodejs18.x"
    /\ \E rt \in [Funcs -> {Undefined, "go1.x"}],
          tg \in [Funcs -> {AbsentTags,
                            [present |-> TRUE,
                             map |-> [NoTags EXCEPT ![TagKeys.Service] = "custom"]]}] :
          funcs = [f \in Funcs |-> FunctionDefinition(f, rt[f], tg[f])]

NoHandlers == [f \in Funcs |-> [name |-> f, runtime |-> Undefined, type |-> "none"]]

Init ==
    /\ InitRuntimes \/ InitTracing \/ InitTags \/ InitForwarder
    /\ webpackExcluded = FALSE
    /\ tracing = "unset"
    /\ command = "none"
    /\ events = <<>>
    /\ beforeDone = FALSE
    /\ lastPhase = "none"
    /\ logged = <<>>
    /\ passes = <<>>
    /\ handlers = NoHandlers
    /\ defaultNode = "none"
    /\ remoteFailed = {}
    /\ pending = FALSE
    /\ beforeRuns = 0
    /\ afterRuns = 0

\* ---------------------------------------------------------------- actions
\* The host starts executing a command: its hooked events are queued.  The
\* host awaits the promise of every hook it runs, so no command starts while a
\* phase function is suspended.
StartCommand(c) ==
    /\ events = <<>>
    /\ ~pending
    /\ beforeRuns + PhaseCount(c, "beforePackageFunction") <= MaxRuns
    /\ afterRuns + PhaseCount(c, "afterPackageFunction") <= MaxRuns
    /\ command' = c
    /\ events' = CommandEvents(c)
    /\ beforeDone' = FALSE
    /\ lastPhase' = "none"
    /\ logged' = <<>>
    /\ passes' = <<>>
    /\ handlers' = NoHandlers
    /\ defaultNode' = "none"
    /\ remoteFailed' = {}
    /\ UNCHANGED <<config, webpack, providerRuntime, funcs, webpackExcluded,
                   tracing, pending, beforeRuns, afterRuns>>

\* The host runs the hook of its next event, bound to phase function p, once
\* the promise of the hook it ran before has settled.
HookFires(p) ==
    /\ events # <<>>
    /\ hooks[Head(events)] = p
    /\ ~pending

\* The layer-attachment pass taken whatever addLayers says.
layerPassAlways(cfg, fs, hs) ==
    [funcs |-> applyLayers(fs, hs),
     logged |-> <<Line("Adding Lambda Layers to functions", NoName, Undefined)>>
                \o debugLogHandlers(hs),
     excluded |-> webpackExcluded \/ webpack,
     passes |-> <<"debugLogHandlers", "applyLayers">>
                \o (IF webpack THEN <<"forceExcludeDepsFromWebpack">> ELSE <<>>)]

\* The layer-attachment pass of beforePackageFunction (if / else on addLayers):
\* the function definitions, the lines logged, the bundler exclusion and the
\* passes performed.
layerPass(cfg, fs, hs) ==
    IF cfg.addLayers
    THEN [funcs |-> applyLayers(fs, hs),
          logged |-> <<Line("Adding Lambda Layers to functions", NoName, Undefined)>>
                     \o debugLogHandlers(hs),
          excluded |-> webpackExcluded \/ webpack,
          passes |-> <<"debugLogHandlers", "applyLayers">>
                     \o (IF webpack THEN <<"forceExcludeDepsFromWebpack">> ELSE <<>>)]
    ELSE [funcs |-> fs,
          logged |-> <<Line("Skipping adding Lambda Layers", NoName, Undefined)>>,
          excluded |-> webpackExcluded,
          passes |-> <<>>]

\* private async beforePackageFunction()
beforePackageFunction ==
    /\ HookFires("beforePackageFunction")
    /\ LET cfg == getConfig
           fs1 == setEnvConfiguration(funcs)
           hs  == getHandlers(fs1, cfg.nodeModuleType)
           lp  == layerPass(cfg, fs1, hs)
       IN  /\ funcs' = lp.funcs
           /\ logged' = <<Line("Auto instrumenting functions with Datadog",
                               NoName, Undefined)>> \o lp.logged
           /\ webpackExcluded' = lp.excluded
           /\ passes' = <<"setEnvConfiguration">> \o lp.passes \o <<"enableTracing">>
           /\ handlers' = hs
           /\ defaultNode' = DefaultNodeRuntime(cfg.nodeModuleType)
           /\ tracing' = enableTracing(tracing, TracingModeOf(cfg))
    /\ events' = Tail(events)
    /\ beforeDone' = TRUE
    /\ lastPhase' = "before"
    /\ remoteFailed' = {}
    /\ beforeRuns' = beforeRuns + 1
    /\ UNCHANGED <<config, webpack, providerRuntime, command, pending, afterRuns>>

\* The tag pass taken whatever enableTags says.
tagPassAlways(cfg, fs) ==
    [funcs |-> addServiceAndEnvTags(fs),
     logged |-> <<Line("Adding service and environment tags to functions",
                       NoName, Undefined)>>,
     passes |-> <<"addServiceAndEnvTags">>]

\* The tag pass of afterPackageFunction (if on enableTags).
tagPass(cfg, fs) ==
    IF cfg.enableTags
    THEN [funcs |-> addServiceAndEnvTags(fs),
          logged |-> <<Line("Adding service and environment tags to functions",
                            NoName, Undefined)>>,
          passes |-> <<"addServiceAndEnvTags">>]
    ELSE [funcs |-> fs, logged |-> <<>>, passes |-> <<>>]

\* The test taken as true whether or not a forwarder is configured.
forwarderConfiguredAlways(cfg) == TRUE

\* afterPackageFunction, `if (config.forwarder)`
forwarderConfigured(cfg) == cfg.forwarder

\* The passes with the redirection block placed ahead of the tag block.
afterPassesRedirectFirst(cfg, fs) ==
    LET hs == getHandlers(fs, cfg.nodeModuleType)
        rd == redirectHandlers(fs, hs, cfg.addLayers)
        tp == tagPass(cfg, rd)
    IN  [funcs |-> tp.funcs,
         logged |-> tp.logged,
         passes |-> <<"redirectHandlers">> \o tp.passes,
         handlers |-> hs]

\* afterPackageFunction from the tag block to its end: the tag pass, then
\* getHandlers and redirectHandlers.
afterPasses(cfg, fs) ==
    LET tp == tagPass(cfg, fs)
        hs == getHandlers(tp.funcs, cfg.nodeModuleType)
    IN  [funcs |-> redirectHandlers(tp.funcs, hs, cfg.addLayers),
         logged |-> tp.logged,
         passes |-> tp.passes \o <<"redirectHandlers">>,
         handlers |-> hs]

\* private async afterPackageFunction(), from the hook's invocation: with a
\* forwarder configured it makes the forwarder call and is suspended at the
\* await of its result; without one it reaches no await and runs to its end.
afterPackageFunction ==
    /\ HookFires("afterPackageFunction")
    /\ events' = Tail(events)
    /\ remoteFailed' = {}
    /\ IF forwarderConfigured(getConfig)
       THEN /\ pending' = TRUE
            /\ lastPhase' = "after awaiting"
            /\ logged' = <<>>
            /\ passes' = <<"addCloudWatchForwarderSubscriptions">>
            /\ handlers' = NoHandlers
            /\ defaultNode' = "none"
            /\ UNCHANGED <<funcs, afterRuns>>
       ELSE LET cfg == getConfig
                ap == afterPasses(cfg, funcs)
            IN  /\ funcs' = ap.funcs
                /\ logged' = ap.logged
                /\ passes' = ap.passes
                /\ handlers' = ap.handlers
                /\ defaultNode' = DefaultNodeRuntime(cfg.nodeModuleType)
                /\ lastPhase' = "after"
                /\ afterRuns' = afterRuns + 1
                /\ UNCHANGED pending
    /\ UNCHANGED <<config, webpack, providerRuntime, webpackExcluded, tracing,
                   command, beforeDone, beforeRuns>>

\* afterPackageFunction resumed when the awaited forwarder call resolves with
\* its collected errors: the error loop, then the remaining passes.
afterPackageResumed ==
    /\ pending
    /\ \E failed \in SUBSET Funcs :
         LET cfg == getConfig
             r == addCloudWatchForwarderSubscriptions(funcs, failed)
             ap == afterPasses(cfg, r.funcs)
         IN  /\ funcs' = ap.funcs
             /\ logged' = logged \o logErrors(r.errors) \o ap.logged
             /\ passes' = passes \o ap.passes
             /\ handlers' = ap.handlers
             /\ defaultNode' = DefaultNodeRuntime(cfg.nodeModuleType)
             /\ remoteFailed' = failed
    /\ pending' = FALSE
    /\ lastPhase' = "after"
    /\ afterRuns' = afterRuns + 1
    /\ UNCHANGED <<config, webpack, providerRuntime, webpackExcluded, tracing,
                   command, events, beforeDone, beforeRuns>>

\* The rejection caught and dropped inside the phase function, which then goes
\* on to the tag and redirection passes.
afterPackageRejectedCaught ==
    /\ pending
    /\ LET cfg == getConfig
           ap == afterPasses(cfg, funcs)
       IN  /\ funcs' = ap.funcs
           /\ logged' = logged \o ap.logged
           /\ passes' = passes \o ap.passes
           /\ handlers' = ap.handlers
           /\ defaultNode' = DefaultNodeRuntime(cfg.nodeModuleType)
    /\ pending' = FALSE
    /\ lastPhase' = "after rejected"
    /\ UNCHANGED <<config, webpack, providerRuntime, webpackExcluded, tracing,
                   command, events, beforeDone, remoteFailed, beforeRuns, afterRuns>>

\* afterPackageFunction resumed when the awaited forwarder call rejects: the
\* exception leaves the phase function before the error loop and the tag and
\* redirection passes, and the host fails the command.
afterPackageRejected ==
    /\ pending
    /\ pending' = FALSE
    /\ events' = <<>>
    /\ lastPhase' = "after rejected"
    /\ UNCHANGED <<config, webpack, providerRuntime, funcs, webpackExcluded,
                   tracing, command, beforeDone, logged, passes, handlers,
                   defaultNode, remoteFailed, beforeRuns, afterRuns>>

Next ==
    \/ \E c \in Commands : StartCommand(c)
    \/ beforePackageFunction
    \/ afterPackageFunction
    \/ afterPackageResumed
    \/ afterPackageRejected

Spec == Init /\ [][Next]_vars

\* ------------------------------------------------------------- properties
\* A step that is a completed run of afterPackageFunction / beforePackageFunction.
AfterStep == afterRuns' = afterRuns + 1
BeforeStep == beforeRuns' = beforeRuns + 1

\* The after-package phase has begun in the current command execution.
AfterBegun == lastPhase \in {"after awaiting", "after", "after rejected"}

\* C1 (as claimed): in every command execution, the after-package phase begins
\* only after the before-package phase has completed in that execution.
C1_AfterOnlyAfterBefore == AfterBegun => beforeDone

\* C1 (amended): in every command execution other than "datadog clean", the
\* after-package phase begins only after the before-package phase has completed
\* in that execution; "datadog clean" runs the after-package phase with no
\* before-package run.
C1_AfterOnlyAfterBeforeExceptClean ==
    AfterBegun => (beforeDone <=> command # "datadog clean")

C1_Witness ==
    /\ command = "package"
    /\ lastPhase = "after"
    /\ beforeDone
    /\ events = <<>>

\* C2: the tracing mode passed to enableTracing is NONE when both flags are
\* false, DD_TRACE when only the vendor flag is true, XRAY when only the X-Ray
\* flag is true and HYBRID when both are true; a mode is set by every
\* before-package run and by nothing else.
C2_TracingModeTable ==
    /\ (tracing = "unset") <=> (beforeRuns = 0)
    /\ tracing # "unset" =>
        /\ tracing \in TracingModes
        /\ (tracing = "NONE") <=> (~config.enableXrayTracing /\ ~config.enableDDTracing)
        /\ (tracing = "DD_TRACE") <=> (~config.enableXrayTracing /\ config.enableDDTracing)
        /\ (tracing = "XRAY") <=> (config.enableXrayTracing /\ ~config.enableDDTracing)
        /\ (tracing = "HYBRID") <=> (config.enableXrayTracing /\ config.enableDDTracing)

C2_Witness ==
    /\ lastPhase = "before"
    /\ config.enableXrayTracing /\ config.enableDDTracing
    /\ tracing = "HYBRID"

\* C3 (as claimed): no step changes a value, the empty string included, that a
\* function's "service" or "env" tag holds.
C3_UserTagValueKept ==
    [][\A f \in Funcs : \A k \in {TagKeys.Service, TagKeys.Env} :
          (funcs[f].tags.present /\ funcs[f].tags.map[k] # Undefined)
              => funcs'[f].tags.map[k] = funcs[f].tags.map[k]]_vars

\* After a completed after-package run with tag injection enabled, every
\* function has a tags mapping with a "service" tag and a tag with key envKey;
\* a tag that was absent before the run holds the service name, respectively
\* the stage; a function tagged exactly {service: "custom"} ends with exactly
\* that tag and the envKey tag holding the stage.
TagsEnsured(envKey) ==
    (AfterStep /\ config.enableTags) =>
        \A f \in Funcs :
            LET old == IF funcs[f].tags.present THEN funcs[f].tags.map ELSE NoTags
                new == funcs'[f].tags.map
            IN  /\ funcs'[f].tags.present
                /\ new[TagKeys.Service] # Undefined
                /\ new[envKey] # Undefined
                /\ old[TagKeys.Service] = Undefined => new[TagKeys.Service] = ServiceName
                /\ old[envKey] = Undefined => new[envKey] = Stage
                /\ old = [NoTags EXCEPT ![TagKeys.Service] = "custom"]
                      => new = [NoTags EXCEPT ![TagKeys.Service] = "custom",
                                              ![envKey] = Stage]

\* C4 (as claimed): with tag injection enabled, the after-package phase leaves
\* every function with a "service" tag and an "environment" tag, set from the
\* service name and the stage where absent.
C4_ServiceAndEnvironmentTags == [][TagsEnsured("environment")]_vars

\* C4 (amended): with tag injection enabled, a completed after-package run
\* leaves every function with a "service" tag and an "env" tag, set from the
\* service name and the stage where absent; {service: "custom"} becomes exactly
\* {service: "custom", env: <stage>}; functions without a tags mapping included.
C4_ServiceAndEnvTags == [][TagsEnsured(TagKeys.Env)]_vars

C4_Witness ==
    /\ lastPhase = "after"
    /\ config.enableTags
    /\ funcs[1].tags = [present |-> TRUE,
                        map |-> [NoTags EXCEPT ![TagKeys.Service] = "custom",
                                               ![TagKeys.Env] = Stage]]
    /\ \E f \in Funcs :
          funcs[f].tags = [present |-> TRUE,
                           map |-> [NoTags EXCEPT ![TagKeys.Service] = ServiceName,
                                                  ![TagKeys.Env] = Stage]]

\* C5: an after-package run that follows a completed after-package run leaves
\* every function's tags as the earlier run left them.
C5_TagInjectionIdempotent ==
    [][(AfterStep /\ afterRuns >= 1) =>
          \A f \in Funcs : funcs'[f].tags = funcs[f].tags]_vars

C5_Witness ==
    /\ afterRuns = 2
    /\ lastPhase = "after"
    /\ config.enableTags
    /\ funcs[1].tags.map[TagKeys.Service] = ServiceName
    /\ funcs[2].tags.map[TagKeys.Service] = "custom"
    /\ funcs[2].tags.map[TagKeys.Env] = Stage

\* The lines of the last run that report a failed forwarder subscription.
ErrorLines == {i \in DOMAIN logged : logged[i].msg = "Could not subscribe forwarder"}

\* The lines of the last run that report an unsupported or undetermined runtime.
RuntimeDiagnostics ==
    {i \in DOMAIN logged :
        logged[i].msg \in {"Unable to determine runtime for function",
                           "Unable to add Lambda Layers to function"}}

\* Every function the classifier supports is routed through its wrapper.
AllRedirected ==
    \A f \in Funcs :
        handlers[f].type # "UNSUPPORTED" =>
            /\ funcs[f].handler = getDDHandler(handlers[f].type, config.addLayers)
            /\ funcs[f].originalHandler = UserHandler(f)

\* C6: with a forwarder configured, a completed after-package run has logged
\* exactly one error line for each of the M functions whose subscription failed
\* remotely and no other error line, whatever M is, and has then performed the
\* tag pass (when enabled) and handler redirection over all functions.
C6_ForwarderPartialFailure ==
    (lastPhase = "after" /\ config.forwarder) =>
        /\ Cardinality(ErrorLines) = Cardinality(remoteFailed)
        /\ \A f \in remoteFailed :
              Cardinality({i \in ErrorLines : logged[i].name = f}) = 1
        /\ \A f \in Funcs \ remoteFailed : funcs[f].subscribed
        /\ passes = <<"addCloudWatchForwarderSubscriptions">>
                    \o (IF config.enableTags THEN <<"addServiceAndEnvTags">> ELSE <<>>)
                    \o <<"redirectHandlers">>
        /\ config.enableTags => \A f \in Funcs : funcs[f].tags.present
        /\ AllRedirected

C6_Witness ==
    /\ lastPhase = "after"
    /\ config.forwarder
    /\ config.enableTags
    /\ remoteFailed = Funcs
    /\ Cardinality(ErrorLines) = NumFuncs
    /\ funcs[1].handler # UserHandler(1)
    /\ funcs[1].tags.present

\* C7: with "add layers" disabled no layer is ever attached to a function and
\* the bundler exclusion is never applied, even with a bundling plugin
\* configured; a before-package run emits no runtime diagnostic and performs
\* only the environment configuration and tracing injection.
C7_LayersDisabledNoOp ==
    ~config.addLayers =>
        /\ \A f \in Funcs : funcs[f].layers = {}
        /\ ~webpackExcluded
        /\ lastPhase = "before" =>
              /\ RuntimeDiagnostics = {}
              /\ passes = <<"setEnvConfiguration", "enableTracing">>
              /\ tracing \in TracingModes

C7_Witness ==
    /\ ~config.addLayers
    /\ webpack
    /\ lastPhase = "before"
    /\ handlers[1].type = "UNSUPPORTED"
    /\ handlers[2].type = "NODE"
    /\ tracing = "DD_TRACE"

\* C8: in a before-package run with "add layers" enabled, every function
\* classified UNSUPPORTED has exactly one diagnostic line, which names the
\* function and its runtime string (the "unable to determine" line when it has
\* no runtime), no supported function has a diagnostic line, every supported
\* function has its layer attached and tracing injection is performed.
C8_UnsupportedRuntimeNonFatal ==
    (lastPhase = "before" /\ config.addLayers) =>
        /\ \A f \in Funcs :
              LET mine == {i \in RuntimeDiagnostics : logged[i].name = f}
              IN  IF handlers[f].type = "UNSUPPORTED"
                  THEN /\ Cardinality(mine) = 1
                       /\ \A i \in mine :
                             /\ logged[i].runtime = handlers[f].runtime
                             /\ (logged[i].msg = "Unable to determine runtime for function")
                                    <=> (handlers[f].runtime = Undefined)
                       /\ funcs[f].layers = {}
                  ELSE /\ mine = {}
                       /\ LayerFor(handlers[f].type) \in funcs[f].layers
        /\ \A i \in RuntimeDiagnostics : logged[i].name \in Funcs
        /\ passes[Len(passes)] = "enableTracing"
        /\ tracing \in TracingModes

C8_Witness ==
    /\ lastPhase = "before"
    /\ config.addLayers
    /\ handlers[1].type = "UNSUPPORTED" /\ handlers[1].runtime = "go1.x"
    /\ handlers[2].type = "UNSUPPORTED" /\ handlers[2].runtime = Undefined
    /\ Cardinality(RuntimeDiagnostics) = 2

\* C9: an after-package run that follows a completed after-package run leaves
\* every function's handler path and recorded original handler as they were,
\* and the original handler recorded is never anything but the user's handler.
C9_RedirectionIdempotent ==
    [][\A f \in Funcs :
          /\ funcs'[f].originalHandler \in {Undefined, UserHandler(f)}
          /\ (AfterStep /\ afterRuns >= 1) =>
                /\ funcs'[f].handler = funcs[f].handler
                /\ funcs'[f].originalHandler = funcs[f].originalHandler]_vars

C9_Witness ==
    /\ afterRuns = 2
    /\ lastPhase = "after"
    /\ funcs[1].handler = getDDHandler("NODE", config.addLayers)
    /\ funcs[1].originalHandler = UserHandler(1)
    /\ funcs[2].handler = UserHandler(2)

\* C10: in every before-package and after-package run the Node default handed
\* to the classifier is NODE_TS for hint "typescript", NODE_ES6 for "es6",
\* NODE for "node" and none for an unset hint, and every Node-family function
\* is classified as that type (generic NODE when there is no hint).
C10_ModuleTypeHint ==
    lastPhase \in {"before", "after"} =>
        /\ config.nodeModuleType = "typescript" => defaultNode = "NODE_TS"
        /\ config.nodeModuleType = "es6" => defaultNode = "NODE_ES6"
        /\ config.nodeModuleType = "node" => defaultNode = "NODE"
        /\ config.nodeModuleType = Undefined => defaultNode = Undefined
        /\ \A f \in Funcs :
              handlers[f].runtime = "nodejs18.x" =>
                  handlers[f].type =
                      (IF defaultNode = Undefined THEN "NODE" ELSE defaultNode)
        /\ \A f \in Funcs :
              handlers[f].runtime # "nodejs18.x" =>
                  handlers[f].type \in {"PYTHON", "UNSUPPORTED"}

C10_Witness ==
    /\ lastPhase = "after"
    /\ beforeDone
    /\ config.nodeModuleType = "typescript"
    /\ handlers[1].type = "NODE_TS"
    /\ handlers[2].type = "PYTHON"

\* The positions of pass p in the passes of the last run.
PassAt(p) == {i \in DOMAIN passes : passes[i] = p}

\* Pass p was performed, once, and strictly before every performance of pass q.
PassBefore(p, q) ==
    /\ Cardinality(PassAt(p)) = 1
    /\ \A i \in PassAt(p) : \A j \in PassAt(q) : i < j

\* The line of the last run announcing tag injection.
TagLines ==
    {i \in DOMAIN logged :
        logged[i].msg = "Adding service and environment tags to functions"}

\* C11: whichever command and event triggered it, a before-package run performs
\* layer attachment (when enabled) strictly before tracing injection, which
\* comes last; an after-package run performs forwarder subscription (when
\* configured), with every collected error logged, strictly before tag
\* injection (when enabled), and both strictly before handler redirection,
\* which comes last; while the forwarder call is awaited nothing but that call
\* has been performed or logged.
C11_FixedPassOrder ==
    /\ pending <=> lastPhase = "after awaiting"
    /\ pending =>
          /\ passes = <<"addCloudWatchForwarderSubscriptions">>
          /\ logged = <<>>
    /\ lastPhase = "before" =>
          /\ Cardinality(PassAt("enableTracing")) = 1
          /\ passes[Len(passes)] = "enableTracing"
          /\ config.addLayers =>
                /\ PassBefore("debugLogHandlers", "applyLayers")
                /\ PassBefore("applyLayers", "enableTracing")
          /\ ~config.addLayers => PassAt("applyLayers") = {}
    /\ lastPhase = "after" =>
          /\ Cardinality(PassAt("redirectHandlers")) = 1
          /\ passes[Len(passes)] = "redirectHandlers"
          /\ config.forwarder =>
                /\ PassBefore("addCloudWatchForwarderSubscriptions",
                              "addServiceAndEnvTags")
                /\ PassBefore("addCloudWatchForwarderSubscriptions",
                              "redirectHandlers")
                /\ Cardinality(ErrorLines) = Cardinality(remoteFailed)
                /\ \A i \in ErrorLines : \A j \in TagLines : i < j
          /\ config.enableTags =>
                PassBefore("addServiceAndEnvTags", "redirectHandlers")

C11_Witness ==
    /\ command = "invoke local"
    /\ lastPhase = "after"
    /\ beforeDone
    /\ remoteFailed # {}
    /\ passes = <<"addCloudWatchForwarderSubscriptions", "addServiceAndEnvTags",
                  "redirectHandlers">>
    /\ ErrorLines # {} /\ TagLines # {}

\* C12: a step in which the awaited forwarder-subscription call rejects ends the
\* after-package run in failure (the command's remaining events are dropped and
\* no run is completed) without the tag or the redirection pass: every
\* function's tags, handler and recorded original handler stay as they were.
C12_HardFailureAborts ==
    [][lastPhase' = "after rejected" =>
          /\ events' = <<>>
          /\ afterRuns' = afterRuns
          /\ \A i \in DOMAIN passes' :
                passes'[i] \notin {"addServiceAndEnvTags", "redirectHandlers"}
          /\ \A f \in Funcs :
                /\ funcs'[f].tags = funcs[f].tags
                /\ funcs'[f].handler = funcs[f].handler
                /\ funcs'[f].originalHandler = funcs[f].originalHandler]_vars

C12_Witness ==
    /\ lastPhase = "after rejected"
    /\ config.forwarder /\ config.enableTags
    /\ afterRuns = 0
    /\ handlers = NoHandlers
    /\ funcs[1].runtime = Undefined
    /\ ~funcs[1].tags.present
    /\ funcs[1].handler = UserHandler(1)
    /\ funcs[1].originalHandler = Undefined

\* C13: a before-package run that follows a completed before-package run
\* injects the same tracing mode again and leaves the tracing settings exactly
\* as the earlier run left them.
C13_TracingInjectionIdempotent ==
    [][(BeforeStep /\ beforeRuns >= 1) =>
          /\ tracing' = tracing
          /\ tracing' \in TracingModes]_vars

C13_Witness ==
    /\ beforeRuns = 2
    /\ lastPhase = "before"
    /\ command = "datadog generate"
    /\ config.enableXrayTracing /\ ~config.enableDDTracing
    /\ tracing = "XRAY"

\* C14: with tag injection disabled, an after-package run leaves every
\* function's tags exactly as they were: the same keys and values, and no tags
\* mapping, not even an empty one, where there was none.
C14_TagsDisabledNoChange ==
    [][(AfterStep /\ ~config.enableTags) =>
          \A f \in Funcs :
              /\ funcs'[f].tags.present = funcs[f].tags.present
              /\ funcs'[f].tags.map = funcs[f].tags.map]_vars

C14_Witness ==
    /\ ~config.enableTags
    /\ lastPhase = "after"
    /\ afterRuns = 2
    /\ funcs[1].tags = AbsentTags
    /\ funcs[2].tags = [present |-> TRUE,
                        map |-> [NoTags EXCEPT ![TagKeys.Service] = ""]]
    /\ funcs[2].handler # UserHandler(2)

\* C15: with no forwarder configured no function is ever subscribed, no
\* subscription fails, no after-package run awaits a call or aborts; a completed
\* after-package run then logs no forwarder error and performs no forwarder
\* pass, yet performs the tag pass exactly when tag injection is enabled; and
\* every completed after-package run, whatever the forwarder and tag settings,
\* ends with handler redirection of every supported function.
C15_NoForwarderStillRedirects ==
    /\ ~config.forwarder =>
          /\ \A f \in Funcs : ~funcs[f].subscribed
          /\ remoteFailed = {}
          /\ ~pending
          /\ lastPhase \notin {"after awaiting", "after rejected"}
    /\ lastPhase = "after" =>
          /\ passes[Len(passes)] = "redirectHandlers"
          /\ AllRedirected
          /\ ~config.forwarder =>
                /\ ErrorLines = {}
                /\ PassAt("addCloudWatchForwarderSubscriptions") = {}
                /\ (PassAt("addServiceAndEnvTags") # {}) <=> config.enableTags
                /\ config.enableTags =>
                      \A f \in Funcs :
                          /\ funcs[f].tags.present
                          /\ funcs[f].tags.map[TagKeys.Service] # Undefined
                          /\ funcs[f].tags.map[TagKeys.Env] # Undefined

C15_Witness ==
    /\ command = "datadog clean"
    /\ lastPhase = "after"
    /\ ~config.forwarder
    /\ config.enableTags
    /\ passes = <<"addServiceAndEnvTags", "redirectHandlers">>
    /\ funcs[1].tags.map[TagKeys.Env] = Stage
    /\ funcs[1].handler = getDDHandler("NODE", config.addLayers)

====
